---- MODULE Spec2Model ----
(***************************************************************************)
(* Model of the Ask-The-Odyssey RAG application: the ingestion script      *)
(* (setup.py: parse_books, chunk_text, generate_embeddings,                *)
(* create_vector_database, main), the query engine (rag_engine.py) and the *)
(* ask endpoint (app.py).                                                  *)
(*                                                                         *)
(* Text is a sequence of one-character strings, so that len, slicing,      *)
(* str.strip and str.split are computed as Python computes them.           *)
(***************************************************************************)
EXTENDS Integers, Sequences, FiniteSets, TLC

(***************************************************************************)
(* Bounds of the model.                                                    *)
(***************************************************************************)
\* blank-line separated pieces of a section text drawn for chunk_text
MaxParas == 3
\* sections in a list of several sections
MaxBooks == 2
\* config.CHUNK_SIZE is drawn from 1..MaxBudget (tokens)
MaxBudget == 2
\* config.CHUNK_OVERLAP is drawn from 0..MaxOverlap (tokens)
MaxOverlap == 2
\* books in a document given to main
MaxDocBooks == 5
\* requests served in one run of the application
MaxRequests == 2

(***************************************************************************)
(* Python string operations on sequences of characters.                    *)
(***************************************************************************)
\* the characters str.strip() removes (those occurring in the model's texts)
Whitespace == {" ", "\n", "\t"}

NL == "\n"

RECURSIVE LStrip(_)
LStrip(s) ==
    IF s = <<>> THEN <<>>
    ELSE IF Head(s) \in Whitespace THEN LStrip(Tail(s)) ELSE s

RECURSIVE RStrip(_)
RStrip(s) ==
    IF s = <<>> THEN <<>>
    ELSE IF s[Len(s)] \in Whitespace THEN RStrip(SubSeq(s, 1, Len(s) - 1)) ELSE s

\* str.strip()
Strip(s) == RStrip(LStrip(s))

\* least i with s[i..i+1] = "\n\n", or 0
FirstBlankLine(s) ==
    LET hits == {i \in 1..(Len(s) - 1) : s[i] = NL /\ s[i + 1] = NL}
    IN  IF hits = {} THEN 0 ELSE CHOOSE i \in hits : \A j \in hits : i <= j

\* str.split('\n\n'): left to right, non-overlapping, empty pieces kept
RECURSIVE SplitBlankLines(_)
SplitBlankLines(s) ==
    LET i == FirstBlankLine(s)
    IN  IF i = 0 THEN <<s>>
        ELSE <<SubSeq(s, 1, i - 1)>> \o SplitBlankLines(SubSeq(s, i + 2, Len(s)))

\* s[-n:] for n >= 0: the last n characters, the whole of s when n >= len(s),
\* and the whole of s when n = 0 (s[-0:] is s[0:])
LastChars(s, n) ==
    IF n = 0 \/ n >= Len(s) THEN s ELSE SubSeq(s, Len(s) - n + 1, Len(s))

Digits == <<"0", "1", "2", "3", "4", "5", "6", "7", "8", "9">>

\* str(n) for n >= 0
RECURSIVE Decimal(_)
Decimal(n) ==
    IF n < 10 THEN <<Digits[n + 1]>>
    ELSE Decimal(n \div 10) \o <<Digits[(n % 10) + 1]>>

(***************************************************************************)
(* setup.py: estimate_tokens and the body of chunk_text.                   *)
(***************************************************************************)
estimate_tokens(text) == Len(text) \div 4

\* f'chunk_{chunk_id}'
ChunkName(chunk_id) == <<"c", "h", "u", "n", "k", "_">> \o Decimal(chunk_id)

\* the dict appended to chunks
MakeChunk(chunk_id, current_chunk, book_num) ==
    [id |-> ChunkName(chunk_id),
     text |-> Strip(current_chunk),
     book_number |-> book_num,
     chunk_index |-> chunk_id]

\* the test without its "and current_chunk": an empty buffer is closed too
MustCloseNoGuard(current_tokens, para_tokens, current_chunk, chunk_size) ==
    current_tokens + para_tokens > chunk_size

\* the test on the buffer's count alone, the paragraph's left out
MustCloseLate(current_tokens, para_tokens, current_chunk, chunk_size) ==
    current_tokens > chunk_size /\ current_chunk # <<>>

\* "if current_tokens + para_tokens > config.CHUNK_SIZE and current_chunk"
MustClose(current_tokens, para_tokens, current_chunk, chunk_size) ==
    current_tokens + para_tokens > chunk_size /\ current_chunk # <<>>

\* the overlap taken from the closed buffer
OverlapPrefix(current_chunk, chunk_overlap) ==
    LET overlap_chars == chunk_overlap * 4
    IN  LastChars(current_chunk, overlap_chars)

\* the buffer a closed chunk leaves behind
SeedChunk(current_chunk, para, chunk_overlap) ==
    OverlapPrefix(current_chunk, chunk_overlap) \o <<NL, NL>> \o para

\* the paragraph assigned to the buffer instead of added to it
AppendParaOverwrite(current_chunk, para) == para

\* "Add paragraph to current chunk"
AppendPara(current_chunk, para) ==
    IF current_chunk # <<>> THEN current_chunk \o <<NL, NL>> \o para ELSE para

\* the chunk id after an emission
NextChunkId(chunk_id) == chunk_id + 1

\* chunk_id set to 0 with the buffer, inside the loop over the books
BookStartResetId(st) ==
    [st EXCEPT !.current_chunk = <<>>, !.current_tokens = 0, !.chunk_id = 0]

\* lines 145-146: each book starts with an empty buffer; chunks and chunk_id
\* are set before the loop over the books and carried through it
BookStart(st) ==
    [st EXCEPT !.current_chunk = <<>>, !.current_tokens = 0]

\* one pass of "for para in paragraphs" over the loop state
\* st = [chunks, chunk_id, current_chunk, current_tokens]
ParaStep(st, raw_para, book_num, chunk_size, chunk_overlap) ==
    LET para == Strip(raw_para)
        para_tokens == estimate_tokens(para)
    IN  IF para = <<>> THEN st
        ELSE IF MustClose(st.current_tokens, para_tokens, st.current_chunk, chunk_size)
        THEN LET seeded == SeedChunk(st.current_chunk, para, chunk_overlap)
             IN  [chunks |-> Append(st.chunks,
                                    MakeChunk(st.chunk_id, st.current_chunk, book_num)),
                  chunk_id |-> NextChunkId(st.chunk_id),
                  current_chunk |-> seeded,
                  current_tokens |-> estimate_tokens(seeded)]
        ELSE [st EXCEPT !.current_chunk = AppendPara(st.current_chunk, para),
                        !.current_tokens = st.current_tokens + para_tokens]

\* "Save remaining chunk"
FlushStep(st, book_num) ==
    IF Strip(st.current_chunk) # <<>>
    THEN [st EXCEPT !.chunks = Append(st.chunks,
                                      MakeChunk(st.chunk_id, st.current_chunk, book_num)),
                    !.chunk_id = NextChunkId(st.chunk_id)]
    ELSE st

RECURSIVE ParasFold(_, _, _, _, _)
ParasFold(st, paragraphs, book_num, chunk_size, chunk_overlap) ==
    IF paragraphs = <<>> THEN st
    ELSE ParasFold(ParaStep(st, Head(paragraphs), book_num, chunk_size, chunk_overlap),
                   Tail(paragraphs), book_num, chunk_size, chunk_overlap)

\* one pass of "for book in books"
BookStep(st, book, chunk_size, chunk_overlap) ==
    FlushStep(ParasFold(BookStart(st), SplitBlankLines(book.text), book.number,
                        chunk_size, chunk_overlap),
              book.number)

RECURSIVE BooksFold(_, _, _, _)
BooksFold(st, books_, chunk_size, chunk_overlap) ==
    IF books_ = <<>> THEN st
    ELSE BooksFold(BookStep(st, Head(books_), chunk_size, chunk_overlap),
                   Tail(books_), chunk_size, chunk_overlap)

\* chunk_text(books) under config.CHUNK_SIZE, config.CHUNK_OVERLAP
chunk_text(books_, chunk_size, chunk_overlap) ==
    BooksFold([chunks |-> <<>>, chunk_id |-> 0,
               current_chunk |-> <<>>, current_tokens |-> 0],
              books_, chunk_size, chunk_overlap).chunks

(***************************************************************************)
(* Texts the model draws its inputs from.                                  *)
(***************************************************************************)
\* 4 characters, 1 token
PieceA == <<"a", "b", "c", "d">>
\* 7 characters, 1 token
PieceB == <<"e", "f", "g", "h", "i", "j", "k">>
\* 9 characters once stripped, 2 tokens
PieceC == <<" ", "l", "m", "n", "o", "p", "q", "r", "s", "t", " ">>
\* 12 characters with a single line break inside, 3 tokens
PieceD == <<"u", "v", "w", "x", "y", NL, "z", "A", "B", "C", "D", "E">>
\* whitespace only: discarded by chunk_text
PieceW == <<" ">>

Pieces == {PieceA, PieceB, PieceC, PieceD, PieceW}

RECURSIVE JoinBlankLines(_)
JoinBlankLines(ps) ==
    IF Len(ps) = 0 THEN <<>>
    ELSE IF Len(ps) = 1 THEN ps[1]
    ELSE ps[1] \o <<NL, NL>> \o JoinBlankLines(Tail(ps))

SeqsUpTo(S, n) == UNION {[1..k -> S] : k \in 1..n}

\* section texts of one to MaxParas pieces
SectionTexts == {JoinBlankLines(ps) : ps \in SeqsUpTo(Pieces, MaxParas)}

\* short section texts for lists of several sections
ShortTexts == {JoinBlankLines(ps) : ps \in SeqsUpTo({PieceA, PieceC}, 2)}

Roman == <<<<"I">>, <<"I", "I">>, <<"I", "I", "I">>, <<"I", "V">>, <<"V">>>>

BookOf(texts) == [i \in DOMAIN texts |-> [number |-> Roman[i], text |-> texts[i]]]

\* the lists of sections chunk_text is run on
BookLists ==
    {BookOf(<<t>>) : t \in SectionTexts}
        \cup {BookOf(ts) : ts \in UNION {[1..k -> ShortTexts] : k \in 2..MaxBooks}}

(***************************************************************************)
(* State.                                                                  *)
(***************************************************************************)
VARIABLES
    \* chunk_text: its argument and the two config values
    books, budget, overlap,
    \* chunk_text: position ("book": at the head of the loop over books,
    \* "para": inside the loop over paragraphs, "done": returned)
    pc, bidx, paragraphs, pidx,
    \* chunk_text: locals
    chunks, chunk_id, current_chunk, current_tokens,
    \* history, one record per emitted chunk: the buffer and the counter at the
    \* emission, the overlap injected when the buffer was seeded, the
    \* paragraphs added to it, and the index of its book
    hist, cur_prefix, cur_paras,
    \* main: the cleaned text, config.VOYAGE_API_KEY being set, the two local
    \* batch sizes, and the collection the store held before the run
    cleaned_text, voyage_api_key, embed_batch_size, add_batch_size, prior_store,
    \* the vector store: the collection "odyssey_chunks"
    store,
    \* main: position, locals of main and of the functions it calls
    main_pc, main_books, main_chunks, texts, embed_i, all_embeddings,
    embeddings, add_i, main_error,
    \* history: the calls made to the embedding service, to time.sleep and to
    \* the vector store, in order
    calls,
    \* app.py: the module's start ("starting", "serving", "failed") and its
    \* global rag ("None" or "engine")
    app_state, rag,
    \* the request in hand: position, entry point ("ask" or "query"), the JSON
    \* body given to ask, the argument given to query, the stripped question,
    \* the store's results, what query did, and ask's response
    q_pc, q_entry, q_body, q_arg, q_question, q_results, q_outcome, q_response,
    \* history: the calls made for the request in hand to the embedding
    \* service, the store and the generation service; the finished requests
    q_calls, q_log

chunkVars == <<books, budget, overlap, pc, bidx, paragraphs, pidx,
               chunks, chunk_id, current_chunk, current_tokens,
               hist, cur_prefix, cur_paras>>

ingestVars == <<cleaned_text, voyage_api_key, embed_batch_size, add_batch_size,
                prior_store, store, main_pc, main_books, main_chunks, texts,
                embed_i, all_embeddings, embeddings, add_i, main_error, calls>>

queryVars == <<app_state, rag, q_pc, q_entry, q_body, q_arg, q_question,
               q_results, q_outcome, q_response, q_calls, q_log>>

vars == <<chunkVars, ingestVars, queryVars>>

\* the variables chunk_text run on its own leaves alone
nonChunkVars == <<ingestVars, queryVars>>

\* the variables a run of main leaves alone
nonIngestVars == <<chunkVars, queryVars>>

\* the variables the application leaves alone
nonQueryVars == <<chunkVars, ingestVars>>

St == [chunks |-> chunks, chunk_id |-> chunk_id,
       current_chunk |-> current_chunk, current_tokens |-> current_tokens]

SetSt(st) ==
    /\ chunks' = st.chunks
    /\ chunk_id' = st.chunk_id
    /\ current_chunk' = st.current_chunk
    /\ current_tokens' = st.current_tokens

HistRecord ==
    [buf |-> current_chunk, tokens |-> current_tokens,
     prefix |-> cur_prefix, paras |-> cur_paras, book |-> bidx]

ChunkInit ==
    /\ books \in BookLists
    /\ budget \in 1..MaxBudget
    /\ overlap \in 0..MaxOverlap
    /\ pc = "book"
    /\ bidx = 1
    /\ paragraphs = <<>>
    /\ pidx = 1
    /\ chunks = <<>>
    /\ chunk_id = 0
    /\ current_chunk = <<>>
    /\ current_tokens = 0
    /\ hist = <<>>
    /\ cur_prefix = <<>>
    /\ cur_paras = <<>>

\* for book in books: split the book into paragraphs, empty buffer
NextBook ==
    /\ pc = "book"
    /\ bidx <= Len(books)
    /\ paragraphs' = SplitBlankLines(books[bidx].text)
    /\ pidx' = 1
    /\ SetSt(BookStart(St))
    /\ cur_prefix' = <<>>
    /\ cur_paras' = <<>>
    /\ pc' = "para"
    /\ UNCHANGED <<books, budget, overlap, bidx, hist>>
    /\ UNCHANGED nonChunkVars

CurPara == Strip(paragraphs[pidx])

\* for para in paragraphs: an empty paragraph is skipped
SkipPara ==
    /\ pc = "para"
    /\ pidx <= Len(paragraphs)
    /\ CurPara = <<>>
    /\ SetSt(ParaStep(St, paragraphs[pidx], books[bidx].number, budget, overlap))
    /\ pidx' = pidx + 1
    /\ UNCHANGED <<books, budget, overlap, pc, bidx, paragraphs,
                   hist, cur_prefix, cur_paras>>
    /\ UNCHANGED nonChunkVars

\* for para in paragraphs: the buffer is saved as a chunk and reseeded
CloseChunk ==
    /\ pc = "para"
    /\ pidx <= Len(paragraphs)
    /\ CurPara # <<>>
    /\ MustClose(current_tokens, estimate_tokens(CurPara), current_chunk, budget)
    /\ SetSt(ParaStep(St, paragraphs[pidx], books[bidx].number, budget, overlap))
    /\ hist' = Append(hist, HistRecord)
    /\ cur_prefix' = OverlapPrefix(current_chunk, overlap)
    /\ cur_paras' = <<CurPara>>
    /\ pidx' = pidx + 1
    /\ UNCHANGED <<books, budget, overlap, pc, bidx, paragraphs>>
    /\ UNCHANGED nonChunkVars

\* for para in paragraphs: the paragraph is added to the buffer
AddPara ==
    /\ pc = "para"
    /\ pidx <= Len(paragraphs)
    /\ CurPara # <<>>
    /\ ~MustClose(current_tokens, estimate_tokens(CurPara), current_chunk, budget)
    /\ SetSt(ParaStep(St, paragraphs[pidx], books[bidx].number, budget, overlap))
    /\ cur_paras' = Append(cur_paras, CurPara)
    /\ pidx' = pidx + 1
    /\ UNCHANGED <<books, budget, overlap, pc, bidx, paragraphs, hist, cur_prefix>>
    /\ UNCHANGED nonChunkVars

\* after the paragraphs of a book: the remaining buffer is saved
FlushBook ==
    /\ pc = "para"
    /\ pidx > Len(paragraphs)
    /\ SetSt(FlushStep(St, books[bidx].number))
    /\ hist' = IF Strip(current_chunk) # <<>> THEN Append(hist, HistRecord) ELSE hist
    /\ bidx' = bidx + 1
    /\ pc' = "book"
    /\ UNCHANGED <<books, budget, overlap, paragraphs, pidx, cur_prefix, cur_paras>>
    /\ UNCHANGED nonChunkVars

\* return chunks
ReturnChunks ==
    /\ pc = "book"
    /\ bidx > Len(books)
    /\ pc' = "done"
    /\ UNCHANGED <<books, budget, overlap, bidx, paragraphs, pidx,
                   chunks, chunk_id, current_chunk, current_tokens,
                   hist, cur_prefix, cur_paras>>
    /\ UNCHANGED nonChunkVars

(***************************************************************************)
(* setup.py: parse_books.                                                  *)
(***************************************************************************)
BookWord == <<"B", "O", "O", "K">>

\* [IVX] under re.IGNORECASE
Numerals == {"I", "V", "X", "i", "v", "x"}

\* str.upper() on the letters of the pattern
ToUpper(c) ==
    CASE c = "b" -> "B" [] c = "o" -> "O" [] c = "k" -> "K"
      [] c = "i" -> "I" [] c = "v" -> "V" [] c = "x" -> "X"
      [] OTHER -> c

RECURSIVE UpperAll(_)
UpperAll(s) == IF s = <<>> THEN <<>> ELSE <<ToUpper(Head(s))>> \o UpperAll(Tail(s))

\* the number of consecutive characters of text from position i that are in S
RECURSIVE RunLength(_, _, _)
RunLength(text, i, S) ==
    IF i > Len(text) THEN 0
    ELSE IF text[i] \in S THEN 1 + RunLength(text, i + 1, S) ELSE 0

\* r'BOOK\s+([IVX]+)' under re.IGNORECASE matched at position i (from 1):
\* the match, or a record with ok = FALSE
MatchAt(text, i) ==
    LET w == RunLength(text, i + 4, Whitespace)
        r == RunLength(text, i + 4 + w, Numerals)
    IN  IF /\ i + 3 <= Len(text)
           /\ UpperAll(SubSeq(text, i, i + 3)) = BookWord
           /\ w >= 1
           /\ r >= 1
        THEN [ok |-> TRUE, start |-> i, stop |-> i + 4 + w + r,
              group1 |-> SubSeq(text, i + 4 + w, i + 4 + w + r - 1)]
        ELSE [ok |-> FALSE, start |-> i, stop |-> i, group1 |-> <<>>]

\* re.finditer: the matches from position pos on, left to right, each search
\* starting where the previous match stopped
RECURSIVE FindIter(_, _)
FindIter(text, pos) ==
    LET found == {i \in pos..Len(text) : MatchAt(text, i).ok}
    IN  IF found = {} THEN <<>>
        ELSE LET i == CHOOSE x \in found : \A y \in found : x <= y
             IN  <<MatchAt(text, i)>> \o FindIter(text, MatchAt(text, i).stop)

\* parse_books(text); start and end are offsets from 0, as match.start() is
parse_books(text) ==
    LET matches == FindIter(text, 1)
    IN  [i \in 1..Len(matches) |->
            LET start_pos == matches[i].start - 1
                end_pos == IF i + 1 <= Len(matches)
                           THEN matches[i + 1].start - 1
                           ELSE Len(text)
            IN  [number |-> UpperAll(matches[i].group1),
                 text |-> Strip(SubSeq(text, start_pos + 1, end_pos)),
                 start |-> start_pos,
                 end |-> end_pos]]

(***************************************************************************)
(* Documents the model draws cleaned_text from.                            *)
(***************************************************************************)
\* "BOOK I", a blank line, a paragraph
SegmentA == <<"B", "O", "O", "K", " ", "I", NL, NL, "a", "b", "c", "d", NL, NL>>
\* "book  iv", a blank line, a paragraph
SegmentB == <<"b", "o", "o", "k", " ", " ", "i", "v", NL, NL, "e", "f", "g", "h", NL, NL>>
\* text with the word BOOK and no numeral after it: not a marker
NoMarkerText == <<"B", "O", "O", "K", " ", "a", "b", "c", "d", NL, NL>>

\* k segments, alternately SegmentA and SegmentB
RECURSIVE Alternate(_, _, _)
Alternate(k, first, second) ==
    IF k = 0 THEN <<>> ELSE first \o Alternate(k - 1, second, first)

Documents ==
    {pre \o Alternate(k, SegmentA, SegmentB) :
        pre \in {<<>>, NoMarkerText}, k \in 0..MaxDocBooks}
    \cup {pre \o Alternate(k, SegmentB, SegmentA) :
        pre \in {<<>>, NoMarkerText}, k \in 1..MaxDocBooks}

(***************************************************************************)
(* config.py, and the services and the store that setup.py calls.          *)
(***************************************************************************)
CHUNK_SIZE == 800
CHUNK_OVERLAP == 100

\* generate_embeddings: batch_size = 128, with a small size beside it so that
\* a run of a few chunks has a first, a middle and a last batch
EmbedBatchSizes == {2, 128}

\* create_vector_database: batch_size = 100, with a small size beside it
AddBatchSizes == {2, 100}

\* the vector vo.embed returns for one text: a function of the text and of
\* the input type
EmbedVector(text, input_type) == [of |-> text, input_type |-> input_type]

RECURSIVE EmbedTexts(_, _)
\* result.embeddings of vo.embed(batch_texts, input_type=...)
EmbedTexts(batch_texts, input_type) ==
    IF batch_texts = <<>> THEN <<>>
    ELSE <<EmbedVector(Head(batch_texts), input_type)>>
            \o EmbedTexts(Tail(batch_texts), input_type)

\* no collection named "odyssey_chunks"
NoCollection == [exists |-> FALSE, entries |-> <<>>]

\* a collection left by an earlier run
OldCollection ==
    [exists |-> TRUE,
     entries |-> <<[id |-> <<"c", "h", "u", "n", "k", "_", "0">>,
                    embedding |-> EmbedVector(<<"o", "l", "d">>, "document"),
                    document |-> <<"o", "l", "d">>,
                    metadata |-> [book_number |-> <<"I">>, chunk_index |-> 0]],
                   [id |-> <<"c", "h", "u", "n", "k", "_", "1">>,
                    embedding |-> EmbedVector(<<"o", "l", "d", "e", "r">>, "document"),
                    document |-> <<"o", "l", "d", "e", "r">>,
                    metadata |-> [book_number |-> <<"I">>, chunk_index |-> 1]]>>]

Min(a, b) == IF a <= b THEN a ELSE b

\* s[i:j] for 0 <= i <= j
Slice(s, i, j) == SubSeq(s, i + 1, Min(j, Len(s)))

\* one record of the history of calls
Call(kind, ok, batch_texts, input_type) ==
    [kind |-> kind, ok |-> ok, texts |-> batch_texts, input_type |-> input_type]

StoreCall(kind, ok) == Call(kind, ok, <<>>, "")

(***************************************************************************)
(* setup.py: main, generate_embeddings, create_vector_database.            *)
(***************************************************************************)
\* the state of a run that has not started: chunk_text run on its own
IngestIdle ==
    /\ cleaned_text = <<>>
    /\ voyage_api_key = FALSE
    /\ embed_batch_size = 0
    /\ add_batch_size = 0
    /\ prior_store = NoCollection
    /\ store = NoCollection
    /\ main_pc = "idle"
    /\ main_books = <<>>
    /\ main_chunks = <<>>
    /\ texts = <<>>
    /\ embed_i = 0
    /\ all_embeddings = <<>>
    /\ embeddings = <<>>
    /\ add_i = 0
    /\ main_error = "none"
    /\ calls = <<>>

ChunkIdle ==
    /\ books = <<>>
    /\ budget = 0
    /\ overlap = 0
    /\ pc = "idle"
    /\ bidx = 1
    /\ paragraphs = <<>>
    /\ pidx = 1
    /\ chunks = <<>>
    /\ chunk_id = 0
    /\ current_chunk = <<>>
    /\ current_tokens = 0
    /\ hist = <<>>
    /\ cur_prefix = <<>>
    /\ cur_paras = <<>>

\* a Python value: a str with its characters, or None, or a number
StrValue(chars) == [type |-> "str", value |-> chars]
NoneValue == [type |-> "None", value |-> <<>>]
NumberValue == [type |-> "number", value |-> <<>>]

\* no request in hand
NoBody == [kind |-> "none", question |-> NoneValue]
NoResponse == [status |-> 0, success |-> FALSE, error |-> "none",
               answer |-> "none", sources |-> <<>>]

\* the application not started
QueryIdle ==
    /\ app_state = "idle"
    /\ rag = "None"
    /\ q_pc = "idle"
    /\ q_entry = "none"
    /\ q_body = NoBody
    /\ q_arg = NoneValue
    /\ q_question = <<>>
    /\ q_results = <<>>
    /\ q_outcome = "none"
    /\ q_response = NoResponse
    /\ q_calls = <<>>
    /\ q_log = <<>>

\* main after preprocess_text: cleaned_text is in hand
IngestInit ==
    /\ cleaned_text \in Documents
    /\ voyage_api_key \in BOOLEAN
    /\ embed_batch_size \in EmbedBatchSizes
    /\ add_batch_size \in AddBatchSizes
    /\ prior_store \in {NoCollection, OldCollection}
    /\ store = prior_store
    /\ main_pc = "parse_books"
    /\ main_books = <<>>
    /\ main_chunks = <<>>
    /\ texts = <<>>
    /\ embed_i = 0
    /\ all_embeddings = <<>>
    /\ embeddings = <<>>
    /\ add_i = 0
    /\ main_error = "none"
    /\ calls = <<>>

\* an exception leaves main: the run is over
Abort(error) ==
    /\ main_pc' = "aborted"
    /\ main_error' = error

\* books = parse_books(cleaned_text)
ParseBooks ==
    /\ main_pc = "parse_books"
    /\ main_books' = parse_books(cleaned_text)
    /\ main_pc' = "chunk_text"
    /\ UNCHANGED <<cleaned_text, voyage_api_key, embed_batch_size, add_batch_size,
                   prior_store, store, main_chunks, texts, embed_i,
                   all_embeddings, embeddings, add_i, main_error, calls>>
    /\ UNCHANGED nonIngestVars

\* chunks = chunk_text(books)
ChunkText ==
    /\ main_pc = "chunk_text"
    /\ main_chunks' = chunk_text(main_books, CHUNK_SIZE, CHUNK_OVERLAP)
    /\ main_pc' = "generate_embeddings"
    /\ UNCHANGED <<cleaned_text, voyage_api_key, embed_batch_size, add_batch_size,
                   prior_store, store, main_books, texts, embed_i,
                   all_embeddings, embeddings, add_i, main_error, calls>>
    /\ UNCHANGED nonIngestVars

\* generate_embeddings up to its loop: the key is checked, the texts are taken
EmbedStart ==
    /\ main_pc = "generate_embeddings"
    /\ IF ~voyage_api_key
       THEN /\ Abort("ValueError")
            /\ UNCHANGED <<texts, embed_i, all_embeddings>>
       ELSE /\ texts' = [i \in 1..Len(main_chunks) |-> main_chunks[i].text]
            /\ embed_i' = 0
            /\ all_embeddings' = <<>>
            /\ main_pc' = "embed_loop"
            /\ UNCHANGED main_error
    /\ UNCHANGED <<cleaned_text, voyage_api_key, embed_batch_size, add_batch_size,
                   prior_store, store, main_books, main_chunks, embeddings,
                   add_i, calls>>
    /\ UNCHANGED nonIngestVars

\* texts[i:i + batch_size]
BatchTexts == Slice(texts, embed_i, embed_i + embed_batch_size)

\* the pause taken after every batch, the last one too
MustSleepAlways(i, batch_size, n) == i < n

\* "if i + batch_size < len(texts)": the pause after a batch
MustSleep(i, batch_size, n) == i + batch_size < n

\* one pass of the loop over the batches, vo.embed returning
EmbedBatchOk ==
    /\ main_pc = "embed_loop"
    /\ embed_i < Len(texts)
    /\ calls' = Append(calls, Call("embed", TRUE, BatchTexts, "document"))
    /\ all_embeddings' = all_embeddings \o EmbedTexts(BatchTexts, "document")
    /\ IF MustSleep(embed_i, embed_batch_size, Len(texts))
       THEN /\ main_pc' = "embed_sleep"
            /\ UNCHANGED embed_i
       ELSE /\ embed_i' = embed_i + embed_batch_size
            /\ UNCHANGED main_pc
    /\ UNCHANGED <<cleaned_text, voyage_api_key, embed_batch_size, add_batch_size,
                   prior_store, store, main_books, main_chunks, texts,
                   embeddings, add_i, main_error>>
    /\ UNCHANGED nonIngestVars

\* what "except Exception as e: print(...); raise" does with the embeddings
\* gathered so far
EmbedFailureSwallowed(gathered) == [raised |-> FALSE, value |-> gathered]

EmbedFailure(gathered) == [raised |-> TRUE, value |-> <<>>]

\* one pass of the loop over the batches, vo.embed raising
EmbedBatchFail ==
    /\ main_pc = "embed_loop"
    /\ embed_i < Len(texts)
    /\ calls' = Append(calls, Call("embed", FALSE, BatchTexts, "document"))
    /\ IF EmbedFailure(all_embeddings).raised
       THEN /\ Abort("EmbedError")
            /\ UNCHANGED embeddings
       ELSE /\ embeddings' = EmbedFailure(all_embeddings).value
            /\ main_pc' = "create_vector_database"
            /\ UNCHANGED main_error
    /\ UNCHANGED <<cleaned_text, voyage_api_key, embed_batch_size, add_batch_size,
                   prior_store, store, main_books, main_chunks, texts, embed_i,
                   all_embeddings, add_i>>
    /\ UNCHANGED nonIngestVars

\* time.sleep(1), then the next batch
EmbedSleep ==
    /\ main_pc = "embed_sleep"
    /\ calls' = Append(calls, Call("sleep", TRUE, <<>>, ""))
    /\ embed_i' = embed_i + embed_batch_size
    /\ main_pc' = "embed_loop"
    /\ UNCHANGED <<cleaned_text, voyage_api_key, embed_batch_size, add_batch_size,
                   prior_store, store, main_books, main_chunks, texts,
                   all_embeddings, embeddings, add_i, main_error>>
    /\ UNCHANGED nonIngestVars

\* return all_embeddings
EmbedReturn ==
    /\ main_pc = "embed_loop"
    /\ embed_i >= Len(texts)
    /\ embeddings' = all_embeddings
    /\ main_pc' = "create_vector_database"
    /\ UNCHANGED <<cleaned_text, voyage_api_key, embed_batch_size, add_batch_size,
                   prior_store, store, main_books, main_chunks, texts, embed_i,
                   all_embeddings, add_i, main_error, calls>>
    /\ UNCHANGED nonIngestVars

\* create_vector_database: chromadb.PersistentClient(path=...) returning
DbClientOk ==
    /\ main_pc = "create_vector_database"
    /\ calls' = Append(calls, StoreCall("client", TRUE))
    /\ main_pc' = "delete_collection"
    /\ UNCHANGED <<cleaned_text, voyage_api_key, embed_batch_size, add_batch_size,
                   prior_store, store, main_books, main_chunks, texts, embed_i,
                   all_embeddings, embeddings, add_i, main_error>>
    /\ UNCHANGED nonIngestVars

\* create_vector_database: chromadb.PersistentClient(path=...) raising
DbClientFail ==
    /\ main_pc = "create_vector_database"
    /\ calls' = Append(calls, StoreCall("client", FALSE))
    /\ Abort("StoreError")
    /\ UNCHANGED <<cleaned_text, voyage_api_key, embed_batch_size, add_batch_size,
                   prior_store, store, main_books, main_chunks, texts, embed_i,
                   all_embeddings, embeddings, add_i>>
    /\ UNCHANGED nonIngestVars

\* client.delete_collection("odyssey_chunks") returning: the collection is gone
DbDeleteOk ==
    /\ main_pc = "delete_collection"
    /\ store.exists
    /\ store' = NoCollection
    /\ calls' = Append(calls, StoreCall("delete", TRUE))
    /\ main_pc' = "create_collection"
    /\ UNCHANGED <<cleaned_text, voyage_api_key, embed_batch_size, add_batch_size,
                   prior_store, main_books, main_chunks, texts, embed_i,
                   all_embeddings, embeddings, add_i, main_error>>
    /\ UNCHANGED nonIngestVars

\* client.delete_collection raising (there is no such collection, or the store
\* fails): "except: pass"
DbDeleteFail ==
    /\ main_pc = "delete_collection"
    /\ calls' = Append(calls, StoreCall("delete", FALSE))
    /\ main_pc' = "create_collection"
    /\ UNCHANGED <<cleaned_text, voyage_api_key, embed_batch_size, add_batch_size,
                   prior_store, store, main_books, main_chunks, texts, embed_i,
                   all_embeddings, embeddings, add_i, main_error>>
    /\ UNCHANGED nonIngestVars

\* client.create_collection(name="odyssey_chunks", ...) returning: there was no
\* collection of that name, and now there is an empty one
DbCreateOk ==
    /\ main_pc = "create_collection"
    /\ ~store.exists
    /\ store' = [exists |-> TRUE, entries |-> <<>>]
    /\ calls' = Append(calls, StoreCall("create", TRUE))
    /\ add_i' = 0
    /\ main_pc' = "add_loop"
    /\ UNCHANGED <<cleaned_text, voyage_api_key, embed_batch_size, add_batch_size,
                   prior_store, main_books, main_chunks, texts, embed_i,
                   all_embeddings, embeddings, main_error>>
    /\ UNCHANGED nonIngestVars

\* client.create_collection raising (the name is taken, or the store fails)
DbCreateFail ==
    /\ main_pc = "create_collection"
    /\ calls' = Append(calls, StoreCall("create", FALSE))
    /\ Abort("StoreError")
    /\ UNCHANGED <<cleaned_text, voyage_api_key, embed_batch_size, add_batch_size,
                   prior_store, store, main_books, main_chunks, texts, embed_i,
                   all_embeddings, embeddings, add_i>>
    /\ UNCHANGED nonIngestVars

\* end_idx = min(i + batch_size, len(chunks)), one short
AddBatchEndShort(i, batch_size, n) == Min(i + batch_size, n) - 1

\* end_idx = min(i + batch_size, len(chunks))
AddBatchEnd(i, batch_size, n) == Min(i + batch_size, n)

\* the entries collection.add receives for chunks[i:end_idx]
RECURSIVE AddEntries(_, _)
AddEntries(i, end_idx) ==
    IF i >= end_idx THEN <<>>
    ELSE (IF i + 1 <= Len(main_chunks)
          THEN <<[id |-> main_chunks[i + 1].id,
                  embedding |-> IF i + 1 <= Len(embeddings)
                                THEN embeddings[i + 1] ELSE "missing",
                  document |-> main_chunks[i + 1].text,
                  metadata |-> [book_number |-> main_chunks[i + 1].book_number,
                                chunk_index |-> main_chunks[i + 1].chunk_index]]>>
          ELSE <<>>)
         \o AddEntries(i + 1, end_idx)

\* one pass of the loop over the insertion batches, collection.add returning
DbAddOk ==
    /\ main_pc = "add_loop"
    /\ add_i < Len(main_chunks)
    /\ LET end_idx == AddBatchEnd(add_i, add_batch_size, Len(main_chunks))
       IN  store' = [store EXCEPT !.entries = @ \o AddEntries(add_i, end_idx)]
    /\ calls' = Append(calls, StoreCall("add", TRUE))
    /\ add_i' = add_i + add_batch_size
    /\ UNCHANGED <<cleaned_text, voyage_api_key, embed_batch_size, add_batch_size,
                   prior_store, main_pc, main_books, main_chunks, texts, embed_i,
                   all_embeddings, embeddings, main_error>>
    /\ UNCHANGED nonIngestVars

\* one pass of the loop over the insertion batches, collection.add raising
DbAddFail ==
    /\ main_pc = "add_loop"
    /\ add_i < Len(main_chunks)
    /\ calls' = Append(calls, StoreCall("add", FALSE))
    /\ Abort("StoreError")
    /\ UNCHANGED <<cleaned_text, voyage_api_key, embed_batch_size, add_batch_size,
                   prior_store, store, main_books, main_chunks, texts, embed_i,
                   all_embeddings, embeddings, add_i>>
    /\ UNCHANGED nonIngestVars

\* return collection, and main prints its summary
DbReturn ==
    /\ main_pc = "add_loop"
    /\ add_i >= Len(main_chunks)
    /\ main_pc' = "done"
    /\ UNCHANGED <<cleaned_text, voyage_api_key, embed_batch_size, add_batch_size,
                   prior_store, store, main_books, main_chunks, texts, embed_i,
                   all_embeddings, embeddings, add_i, main_error, calls>>
    /\ UNCHANGED nonIngestVars

SpecIngestInit == ChunkIdle /\ IngestInit /\ QueryIdle

SpecIngestNext ==
    \/ ParseBooks
    \/ ChunkText
    \/ EmbedStart
    \/ EmbedBatchOk
    \/ EmbedBatchFail
    \/ EmbedSleep
    \/ EmbedReturn
    \/ DbClientOk
    \/ DbClientFail
    \/ DbDeleteOk
    \/ DbDeleteFail
    \/ DbCreateOk
    \/ DbCreateFail
    \/ DbAddOk
    \/ DbAddFail
    \/ DbReturn

SpecIngest == SpecIngestInit /\ [][SpecIngestNext]_vars

(***************************************************************************)
(* rag_engine.py: OdysseyRAG.query, and app.py: the module's start and     *)
(* the ask handler.                                                        *)
(***************************************************************************)
TOP_K_RESULTS == 5

\* questions: empty, whitespace only, text, text with whitespace around it
QuestionEmpty == <<>>
QuestionBlank == <<" ", "\t", NL>>
QuestionWho == <<"W", "h", "o", "?">>
QuestionPadded == <<" ", "W", "h", "o", "?", NL>>

Questions == {QuestionEmpty, QuestionBlank, QuestionWho, QuestionPadded}

\* the arguments OdysseyRAG.query is called with
QueryArgs == {StrValue(q) : q \in Questions} \cup {NoneValue}

\* what request.get_json() is given: a body that is not readable as JSON, a
\* JSON value that is falsy (null, {}, [], 0), a non-empty object with or
\* without the key "question", a non-empty array
Bodies ==
    {[kind |-> k, question |-> NoneValue] :
        k \in {"unreadable", "falsy", "object_other", "array"}}
    \cup {[kind |-> "object", question |-> v] :
            v \in QueryArgs \cup {NumberValue}}

\* what collection.query returns: per match the book number, the document and
\* the distance in thousandths.  The store's metric decides the range of the
\* distance: it is 0 or more under squared L2, and can be below 0 under the
\* inner product; _format_sources takes whatever the store gives.
Match(book_num, doc, distance) ==
    [book_number |-> book_num, document |-> doc, distance |-> distance]

ResultSets ==
    {<<>>,
     <<Match(<<"I">>, PieceA, 600), Match(<<"I", "V">>, PieceB, 1750)>>,
     <<Match(<<"I">>, PieceA, 0), Match(<<"V">>, PieceB, 2600)>>,
     <<Match(<<"X">>, PieceC, -500), Match(<<"I">>, PieceA, 2000)>>}

\* round(x, 2) of x given in two-thousandths, in hundredths: to the nearest,
\* a tie to the even hundredth
RoundHundredths(x) ==
    LET q == x \div 20
        r == x % 20
    IN  IF r < 10 THEN q
        ELSE IF r > 10 THEN q + 1
        ELSE IF q % 2 = 0 THEN q ELSE q + 1

\* max(0, 1 - (distance / 2)), in two-thousandths
RelevanceScore(distance) ==
    IF 2000 - distance > 0 THEN 2000 - distance ELSE 0

DISPLAY_CHARS == 300

\* doc[:300] + "..." if len(doc) > 300 else doc
DisplayText(doc) ==
    IF Len(doc) > DISPLAY_CHARS
    THEN SubSeq(doc, 1, DISPLAY_CHARS) \o <<".", ".", ".">>
    ELSE doc

\* OdysseyRAG._format_sources; relevance_score in hundredths
format_sources(results) ==
    [i \in 1..Len(results) |->
        [book |-> <<"B", "o", "o", "k", " ">> \o results[i].book_number,
         text |-> DisplayText(results[i].document),
         relevance_score |-> RoundHundredths(RelevanceScore(results[i].distance))]]

\* the test of query without its "not question.strip()"
IsEmptyQuestionNoStrip(question) ==
    question.type = "None" \/ question.value = <<>>

\* OdysseyRAG.query: "if not question or not question.strip()"
IsEmptyQuestion(question) ==
    \/ question.type = "None"
    \/ question.value = <<>>
    \/ Strip(question.value) = <<>>

\* one record of the history of a request's calls
QueryCall(kind, ok, arg) == [kind |-> kind, ok |-> ok, arg |-> arg]

\* jsonify({...}), status
Response(status, error, answer, sources) ==
    [status |-> status, success |-> status = 200, error |-> error,
     answer |-> answer, sources |-> sources]

\* the application before app.py is loaded
QueryInit ==
    /\ app_state = "starting"
    /\ rag = "None"
    /\ q_pc = "idle"
    /\ q_entry = "none"
    /\ q_body = NoBody
    /\ q_arg = NoneValue
    /\ q_question = <<>>
    /\ q_results = <<>>
    /\ q_outcome = "none"
    /\ q_response = NoResponse
    /\ q_calls = <<>>
    /\ q_log = <<>>

\* app.py at module level: init_rag_engine() returns True, rag is set
AppInitOk ==
    /\ app_state = "starting"
    /\ rag' = "engine"
    /\ app_state' = "serving"
    /\ UNCHANGED <<q_pc, q_entry, q_body, q_arg, q_question, q_results,
                   q_outcome, q_response, q_calls, q_log>>
    /\ UNCHANGED nonQueryVars

\* app.py at module level: init_rag_engine() returns False (no database, a
\* key missing, the collection not loaded) and the module raises RuntimeError:
\* no request is ever served
AppInitFail ==
    /\ app_state = "starting"
    /\ app_state' = "failed"
    /\ UNCHANGED <<rag, q_pc, q_entry, q_body, q_arg, q_question, q_results,
                   q_outcome, q_response, q_calls, q_log>>
    /\ UNCHANGED nonQueryVars

\* a request may start: the application serves and none is in hand
MayStart ==
    /\ app_state = "serving"
    /\ q_pc \in {"idle", "finished"}
    /\ Len(q_log) < MaxRequests

\* the request in hand is over: it joins the finished requests
LogEntry(outcome, response) ==
    [entry |-> q_entry, body |-> q_body, arg |-> q_arg, outcome |-> outcome,
     response |-> response, calls |-> q_calls]

\* POST /api/ask arrives with a body
AskReceive ==
    /\ MayStart
    /\ \E body \in Bodies : q_body' = body
    /\ q_entry' = "ask"
    /\ q_pc' = "ask"
    /\ q_arg' = NoneValue
    /\ q_question' = <<>>
    /\ q_results' = <<>>
    /\ q_outcome' = "none"
    /\ q_response' = NoResponse
    /\ q_calls' = <<>>
    /\ UNCHANGED <<app_state, rag, q_log>>
    /\ UNCHANGED nonQueryVars

\* OdysseyRAG.query is called by other code than the ask handler
QueryReceive ==
    /\ MayStart
    /\ \E arg \in QueryArgs : q_arg' = arg
    /\ q_entry' = "query"
    /\ q_pc' = "query"
    /\ q_body' = NoBody
    /\ q_question' = <<>>
    /\ q_results' = <<>>
    /\ q_outcome' = "none"
    /\ q_response' = NoResponse
    /\ q_calls' = <<>>
    /\ UNCHANGED <<app_state, rag, q_log>>
    /\ UNCHANGED nonQueryVars

\* ask responds without calling rag.query
AskRespond(response) ==
    /\ q_response' = response
    /\ q_pc' = "finished"
    /\ q_log' = Append(q_log, LogEntry(q_outcome, response))
    /\ UNCHANGED <<q_arg, q_question, q_outcome>>

\* ask from its first line to its call of rag.query, or to its response.
\* raises: request.get_json() raises on a body it cannot read (it returns
\* None instead under a Flask that is silent about it)
AskHandle ==
    /\ q_pc = "ask"
    /\ \E raises \in BOOLEAN :
        IF rag = "None"
        THEN AskRespond(Response(503, "not_initialized", "none", <<>>))
        ELSE IF q_body.kind = "unreadable" /\ raises
        THEN AskRespond(Response(500, "unexpected_error", "none", <<>>))
        ELSE IF q_body.kind \in {"unreadable", "falsy"}
        THEN AskRespond(Response(400, "json_body_required", "none", <<>>))
        ELSE IF q_body.kind = "array"
        THEN AskRespond(Response(500, "unexpected_error", "none", <<>>))
        ELSE IF q_body.kind = "object" /\ q_body.question.type # "str"
        THEN AskRespond(Response(500, "unexpected_error", "none", <<>>))
        ELSE LET question == IF q_body.kind = "object"
                             THEN Strip(q_body.question.value)
                             ELSE Strip(<<>>)
             IN  IF question = <<>>
                 THEN AskRespond(Response(400, "question_empty", "none", <<>>))
                 ELSE /\ q_arg' = StrValue(question)
                      /\ q_pc' = "query"
                      /\ UNCHANGED <<q_question, q_outcome, q_response, q_log>>
    /\ UNCHANGED <<app_state, rag, q_entry, q_body, q_results, q_calls>>
    /\ UNCHANGED nonQueryVars

\* query ends by raising or returning, having made the calls in made: the
\* caller's turn.  Under ask a ValueError is answered 400 with its message, a
\* RuntimeError 500, a result 200.
QueryEnds(outcome, answer, sources, made) ==
    LET response ==
            IF q_entry # "ask" THEN NoResponse
            ELSE IF outcome = "ValueError"
            THEN Response(400, "question_empty", "none", <<>>)
            ELSE IF outcome = "RuntimeError"
            THEN Response(500, "processing_error", "none", <<>>)
            ELSE Response(200, "none", answer, sources)
    IN  /\ q_outcome' = outcome
        /\ q_response' = response
        /\ q_pc' = "finished"
        /\ q_log' = Append(q_log, [LogEntry(outcome, response) EXCEPT !.calls = made])

\* query: "Validate input", question = question.strip()
QueryValidate ==
    /\ q_pc = "query"
    /\ IF IsEmptyQuestion(q_arg)
       THEN /\ QueryEnds("ValueError", "none", <<>>, q_calls)
            /\ UNCHANGED q_question
       ELSE /\ q_question' = Strip(q_arg.value)
            /\ q_pc' = "embed"
            /\ UNCHANGED <<q_outcome, q_response, q_log>>
    /\ UNCHANGED <<app_state, rag, q_entry, q_body, q_arg, q_results, q_calls>>
    /\ UNCHANGED nonQueryVars

\* _generate_query_embedding: voyage_client.embed([query], input_type="query")
\* returning
QueryEmbedOk ==
    /\ q_pc = "embed"
    /\ q_calls' = Append(q_calls, QueryCall("embed", TRUE, q_question))
    /\ q_pc' = "retrieve"
    /\ UNCHANGED <<app_state, rag, q_entry, q_body, q_arg, q_question, q_results,
                   q_outcome, q_response, q_log>>
    /\ UNCHANGED nonQueryVars

\* _generate_query_embedding: the call raising, wrapped in RuntimeError
QueryEmbedFail ==
    /\ q_pc = "embed"
    /\ q_calls' = Append(q_calls, QueryCall("embed", FALSE, q_question))
    /\ QueryEnds("RuntimeError", "none", <<>>,
                 Append(q_calls, QueryCall("embed", FALSE, q_question)))
    /\ UNCHANGED <<app_state, rag, q_entry, q_body, q_arg, q_question, q_results>>
    /\ UNCHANGED nonQueryVars

\* _retrieve_relevant_chunks: collection.query(n_results=top_k) returning
QueryRetrieveOk ==
    /\ q_pc = "retrieve"
    /\ \E results \in ResultSets :
        /\ Len(results) <= TOP_K_RESULTS
        /\ q_results' = results
    /\ q_calls' = Append(q_calls, QueryCall("store", TRUE, q_question))
    /\ q_pc' = "generate"
    /\ UNCHANGED <<app_state, rag, q_entry, q_body, q_arg, q_question,
                   q_outcome, q_response, q_log>>
    /\ UNCHANGED nonQueryVars

\* _retrieve_relevant_chunks: the call raising, wrapped in RuntimeError
QueryRetrieveFail ==
    /\ q_pc = "retrieve"
    /\ q_calls' = Append(q_calls, QueryCall("store", FALSE, q_question))
    /\ QueryEnds("RuntimeError", "none", <<>>,
                 Append(q_calls, QueryCall("store", FALSE, q_question)))
    /\ UNCHANGED <<app_state, rag, q_entry, q_body, q_arg, q_question, q_results>>
    /\ UNCHANGED nonQueryVars

\* _build_context, _build_prompt, _call_claude returning, _format_sources
QueryGenerateOk ==
    /\ q_pc = "generate"
    /\ q_calls' = Append(q_calls, QueryCall("generate", TRUE, q_question))
    /\ QueryEnds("returned", "answer", format_sources(q_results),
                 Append(q_calls, QueryCall("generate", TRUE, q_question)))
    /\ UNCHANGED <<app_state, rag, q_entry, q_body, q_arg, q_question, q_results>>
    /\ UNCHANGED nonQueryVars

\* _call_claude: the call raising, wrapped in RuntimeError
QueryGenerateFail ==
    /\ q_pc = "generate"
    /\ q_calls' = Append(q_calls, QueryCall("generate", FALSE, q_question))
    /\ QueryEnds("RuntimeError", "none", <<>>,
                 Append(q_calls, QueryCall("generate", FALSE, q_question)))
    /\ UNCHANGED <<app_state, rag, q_entry, q_body, q_arg, q_question, q_results>>
    /\ UNCHANGED nonQueryVars

SpecQueryInit == ChunkIdle /\ IngestIdle /\ QueryInit

SpecQueryNext ==
    \/ AppInitOk
    \/ AppInitFail
    \/ AskReceive
    \/ QueryReceive
    \/ AskHandle
    \/ QueryValidate
    \/ QueryEmbedOk
    \/ QueryEmbedFail
    \/ QueryRetrieveOk
    \/ QueryRetrieveFail
    \/ QueryGenerateOk
    \/ QueryGenerateFail

SpecQuery == SpecQueryInit /\ [][SpecQueryNext]_vars

Init == ChunkInit /\ IngestIdle /\ QueryIdle

Next ==
    \/ NextBook
    \/ SkipPara
    \/ CloseChunk
    \/ AddPara
    \/ FlushBook
    \/ ReturnChunks

Spec == Init /\ [][Next]_vars

\* the run agrees with chunk_text computed at once
RunIsChunkText == pc = "done" => chunks = chunk_text(books, budget, overlap)

(***************************************************************************)
(* Properties of chunk_text (specification Spec).                          *)
(***************************************************************************)
\* the emitted chunks of the book at index b, in emission order
ChunksOfBook(b) == SelectSeq([i \in 1..Len(hist) |-> i], LAMBDA i : hist[i].book = b)

\* a book whose loop over paragraphs and final flush are over
BookDone(b) == b \in 1..Len(books) /\ b < bidx

RECURSIVE StripAll(_)
StripAll(ps) == IF ps = <<>> THEN <<>> ELSE <<Strip(Head(ps))>> \o StripAll(Tail(ps))

\* the non-empty paragraphs of a text, stripped, in order
NonEmptyParagraphs(text) ==
    SelectSeq(StripAll(SplitBlankLines(text)), LAMBDA p : p # <<>>)

\* p occurs in t as a run of consecutive characters
IsSubstring(p, t) ==
    \E i \in 0..(Len(t) - Len(p)) : SubSeq(t, i + 1, i + Len(p)) = p

\* what the chunk's text keeps of the overlap injected into its buffer
\* (the chunk's text is the stripped buffer)
KeptPrefix(i) == LStrip(hist[i].prefix)

\* the chunk's text starts with the injected overlap
StartsWithPrefix(i) ==
    /\ Len(KeptPrefix(i)) <= Len(chunks[i].text)
    /\ SubSeq(chunks[i].text, 1, Len(KeptPrefix(i))) = KeptPrefix(i)

\* the chunk's text with the injected overlap removed
WithoutPrefix(i) ==
    SubSeq(chunks[i].text, Len(KeptPrefix(i)) + 1, Len(chunks[i].text))

RECURSIVE OwnParagraphs(_)
\* the paragraphs left in the chunks listed in is, overlap removed
OwnParagraphs(is) ==
    IF is = <<>> THEN <<>>
    ELSE NonEmptyParagraphs(WithoutPrefix(Head(is))) \o OwnParagraphs(Tail(is))

\* C1 as stated: every emitted chunk's buffer has an estimate of at most
\* budget_tokens, unless the chunk contains a paragraph whose own estimate
\* exceeds budget_tokens.  (Stated for overlap_tokens >= 1, where the injected
\* overlap is within its own bound, so that a violation owes nothing to the
\* whole-buffer overlap of overlap_tokens = 0.)
C1_BufferWithinBudget ==
    overlap >= 1 =>
        \A i \in 1..Len(hist) :
            \/ estimate_tokens(hist[i].buf) <= budget
            \/ \E k \in 1..Len(hist[i].paras) :
                    estimate_tokens(hist[i].paras[k]) > budget

\* C1 as amended: an emitted chunk that holds n >= 2 paragraphs after its
\* overlap prefix has a tracked count current_tokens of at most budget_tokens
\* and a buffer of at most 4 * budget_tokens + 5 * n - 2 characters (the
\* joiners and the remainders of len // 4 are not counted by current_tokens).
C1_TrackedWithinBudget ==
    \A i \in 1..Len(hist) :
        LET n == Len(hist[i].paras)
        IN  n >= 2 =>
                /\ hist[i].tokens <= budget
                /\ Len(hist[i].buf) <= 4 * budget + 5 * n - 2

\* a chunk of several paragraphs, none oversized, whose buffer is over budget
C1_Witness ==
    \E i \in 1..Len(hist) :
        /\ Len(hist[i].paras) >= 2
        /\ estimate_tokens(hist[i].buf) > budget
        /\ hist[i].tokens = budget

\* C2: for every section, the chunks' texts with the injected overlap removed,
\* taken in emission order, hold exactly the section's non-empty paragraphs in
\* their order; the section's first chunk has no injected overlap.
C2_Coverage ==
    \A b \in 1..Len(books) :
        BookDone(b) =>
            LET is == ChunksOfBook(b)
            IN  /\ \A k \in 1..Len(is) : StartsWithPrefix(is[k])
                /\ is # <<>> => hist[is[1]].prefix = <<>>
                /\ OwnParagraphs(is) = NonEmptyParagraphs(books[b].text)

\* a section of three paragraphs spread over several chunks with overlap
C2_Witness ==
    /\ pc = "done"
    /\ Len(NonEmptyParagraphs(books[1].text)) = 3
    /\ Len(ChunksOfBook(1)) >= 2
    /\ \E k \in 1..Len(hist) : hist[k].prefix # <<>> /\ KeptPrefix(k) # hist[k].prefix

\* C3 as stated: the text of the earlier chunk repeated at the start of the
\* next chunk of the same section has an estimate of at most overlap_tokens,
\* for every overlap_tokens >= 0.
C3_OverlapBound ==
    \A i \in 1..Len(hist) :
        hist[i].prefix # <<>> => estimate_tokens(KeptPrefix(i)) <= overlap

\* C4: a section made of one paragraph larger than the budget yields one chunk
\* whose text is that paragraph; in any section a paragraph larger than the
\* budget is found whole in the text of a chunk of that section.
C4_OversizedWhole ==
    \A b \in 1..Len(books) :
        BookDone(b) =>
            LET ps == NonEmptyParagraphs(books[b].text)
                is == ChunksOfBook(b)
            IN  /\ (Len(ps) = 1 /\ estimate_tokens(ps[1]) > budget) =>
                        (Len(is) = 1 /\ chunks[is[1]].text = ps[1])
                /\ \A k \in 1..Len(ps) :
                        estimate_tokens(ps[k]) > budget =>
                            \E j \in 1..Len(is) : IsSubstring(ps[k], chunks[is[j]].text)

\* a section that is one paragraph of twice the budget, chunked
C4_Witness ==
    /\ pc = "done"
    /\ Len(books) = 1
    /\ Len(NonEmptyParagraphs(books[1].text)) = 1
    /\ estimate_tokens(NonEmptyParagraphs(books[1].text)[1]) = 2 * budget
    /\ Len(chunks) = 1

\* 'chunk_<k>' for k < 10
ExpectedId(k) == <<"c", "h", "u", "n", "k", "_", Digits[k + 1]>>

\* C5: the k-th chunk emitted over the whole run (k from 0) has id chunk_<k>
\* and index k, also across section boundaries, and no two chunks share an id.
C5_GlobalIds ==
    /\ \A i \in 1..Len(chunks) :
            /\ chunks[i].chunk_index = i - 1
            /\ i <= 10 => chunks[i].id = ExpectedId(i - 1)
    /\ \A i, j \in 1..Len(chunks) : chunks[i].id = chunks[j].id => i = j
    /\ chunk_id = Len(chunks)

\* a second section whose chunks continue the numbering of the first
C5_Witness ==
    /\ pc = "done"
    /\ Len(books) >= 2
    /\ Len(ChunksOfBook(1)) >= 2
    /\ Len(ChunksOfBook(2)) >= 2

(***************************************************************************)
(* Properties of a run of main (specification SpecIngest).                 *)
(***************************************************************************)
\* the cleaned text holds no section marker
NoMarkers == main_pc # "idle" /\ FindIter(cleaned_text, 1) = <<>>

CallsOfKind(kinds) == SelectSeq(calls, LAMBDA c : c.kind \in kinds)

StoreKinds == {"client", "delete", "create", "add"}

\* C6 as stated, in what it says of the index: when the cleaned text holds no
\* section marker the run does not complete, no embedding call is made, the
\* collection is neither deleted nor created, and the store holds what it
\* held before the run.
C6_NoMarkersNoIndex ==
    NoMarkers =>
        /\ main_pc # "done"
        /\ CallsOfKind({"embed"}) = <<>>
        /\ \A k \in 1..Len(calls) : calls[k].kind \in {"delete", "create"} => ~calls[k].ok
        /\ store = prior_store

\* an embedding call has failed
EmbedFailed == \E k \in 1..Len(calls) : calls[k].kind = "embed" /\ ~calls[k].ok

\* C7: once the embedding call of a batch has failed, the run is aborted with
\* the service's error, the failed call is the last call the run has made (no
\* later batch, no pause, no call to the store), create_vector_database got
\* no embeddings, and the store holds the collection it held before the run.
C7_EmbedFailureAborts ==
    EmbedFailed =>
        /\ main_pc = "aborted"
        /\ main_error = "EmbedError"
        /\ calls[Len(calls)].kind = "embed" /\ ~calls[Len(calls)].ok
        /\ Len(SelectSeq(calls, LAMBDA c : c.kind = "embed" /\ ~c.ok)) = 1
        /\ CallsOfKind(StoreKinds) = <<>>
        /\ embeddings = <<>>
        /\ store = prior_store

\* the second of three batches fails while the store holds an older collection
C7_Witness ==
    /\ main_pc = "aborted"
    /\ Len(texts) >= 5
    /\ embed_batch_size = 2
    /\ Len(calls) = 3
    /\ calls[3].kind = "embed" /\ ~calls[3].ok
    /\ calls[1].kind = "embed" /\ calls[1].ok
    /\ prior_store.exists

\* create_vector_database has ended, by returning or by raising
DbEnded ==
    \/ main_pc = "done"
    \/ /\ main_pc = "aborted"
       /\ calls # <<>>
       /\ calls[Len(calls)].kind \in StoreKinds

\* the collection holds an entry for every supplied chunk
HoldsEveryChunk ==
    /\ store.exists
    /\ Len(store.entries) = Len(main_chunks)
    /\ \A i \in 1..Len(main_chunks) : store.entries[i].id = main_chunks[i].id

\* C8 as stated: whenever create_vector_database has ended, the store holds
\* either the collection it held before the run or a collection with every
\* supplied chunk.
C8_AtomicRebuild == DbEnded => (store = prior_store \/ HoldsEveryChunk)

\* C9: when create_vector_database has returned, the collection exists and
\* holds exactly one entry per supplied chunk, in order, with the chunk's id,
\* text and metadata and the vector at the chunk's position, so nothing of
\* the prior collection is left; this for any number of chunks and whether or
\* not a collection existed before.
C9_CollectionIsChunks ==
    main_pc = "done" =>
        /\ store.exists
        /\ Len(embeddings) = Len(main_chunks)
        /\ Len(store.entries) = Len(main_chunks)
        /\ \A i \in 1..Len(main_chunks) :
                store.entries[i] =
                    [id |-> main_chunks[i].id,
                     embedding |-> embeddings[i],
                     document |-> main_chunks[i].text,
                     metadata |-> [book_number |-> main_chunks[i].book_number,
                                   chunk_index |-> main_chunks[i].chunk_index]]

\* a rebuild over an older collection, in several insertion batches
C9_Witness ==
    /\ main_pc = "done"
    /\ prior_store.exists
    /\ Len(main_chunks) >= 3
    /\ add_batch_size = 2
    /\ \E i \in 1..Len(main_chunks) : main_chunks[i].text # main_chunks[1].text

(***************************************************************************)
(* Properties of the application (specification SpecQuery).                *)
(***************************************************************************)
\* a question that is empty or whitespace only
BlankQuestion(v) == v.type = "str" /\ \A k \in 1..Len(v.value) : v.value[k] \in Whitespace

\* C10: a question that is empty or whitespace only is rejected with a
\* validation error, ValueError by OdysseyRAG.query and status 400 by the ask
\* handler, and from its arrival to its rejection no call is made to the
\* embedding service, the store or the generation service.
C10_BlankQuestionRejected ==
    /\ \A k \in 1..Len(q_log) :
        /\ (q_log[k].entry = "query" /\ BlankQuestion(q_log[k].arg)) =>
                (q_log[k].outcome = "ValueError" /\ q_log[k].calls = <<>>)
        /\ (q_log[k].entry = "ask" /\ q_log[k].body.kind = "object"
                /\ BlankQuestion(q_log[k].body.question)) =>
                (/\ q_log[k].response.status = 400
                 /\ q_log[k].response.error = "question_empty"
                 /\ ~q_log[k].response.success
                 /\ q_log[k].calls = <<>>)
    /\ (q_entry = "query" /\ BlankQuestion(q_arg)) =>
            (q_calls = <<>> /\ q_pc \in {"query", "finished"})
    /\ (q_entry = "ask" /\ q_body.kind = "object" /\ BlankQuestion(q_body.question)) =>
            (q_calls = <<>> /\ q_pc \in {"ask", "finished"})

\* a whitespace-only question rejected by the ask handler and another by query
C10_Witness ==
    /\ Len(q_log) = 2
    /\ q_log[1].entry = "ask"
    /\ q_log[1].body = [kind |-> "object", question |-> StrValue(QuestionBlank)]
    /\ q_log[1].response.status = 400
    /\ q_log[2].entry = "query"
    /\ q_log[2].arg = StrValue(QuestionBlank)
    /\ q_log[2].outcome = "ValueError"

\* clamp(x, lo, hi)
Clamp(x, lo, hi) == IF x < lo THEN lo ELSE IF x > hi THEN hi ELSE x

\* a request answered with sources: the matches of the store in q_results, the
\* formatted sources in the response
SourcesReturned ==
    /\ q_pc = "finished"
    /\ q_entry = "ask"
    /\ q_outcome = "returned"

\* C11: for every match the store returns, whatever its distance, the
\* relevance score _format_sources gives is clamp(1 - distance/2, 0, 1)
\* (rounded to two decimal places), so it lies in [0, 1], and of two
\* matches the one with the smaller distance has a score at least as high.
C11_ScoreClamped ==
    SourcesReturned =>
        LET sources == q_response.sources
        IN  /\ Len(sources) = Len(q_results)
            /\ \A i \in 1..Len(q_results) :
                /\ sources[i].relevance_score =
                       RoundHundredths(Clamp(2000 - q_results[i].distance, 0, 2000))
                /\ sources[i].relevance_score \in 0..100
            /\ \A i, j \in 1..Len(q_results) :
                q_results[i].distance < q_results[j].distance =>
                    sources[i].relevance_score >= sources[j].relevance_score

\* what _format_sources does give: the score is max(0, 1 - distance/2)
\* rounded, never below 0, within [0, 1] for a distance of 0 or more, and
\* it never grows with the distance
C11_ScoreFloorAndOrder ==
    SourcesReturned =>
        LET sources == q_response.sources
        IN  /\ Len(sources) = Len(q_results)
            /\ \A i \in 1..Len(q_results) :
                /\ sources[i].relevance_score >= 0
                /\ q_results[i].distance >= 0 =>
                    /\ sources[i].relevance_score \in 0..100
                    /\ sources[i].relevance_score =
                           RoundHundredths(Clamp(2000 - q_results[i].distance, 0, 2000))
            /\ \A i, j \in 1..Len(q_results) :
                q_results[i].distance < q_results[j].distance =>
                    sources[i].relevance_score >= sources[j].relevance_score

\* sources returned for a match at a distance below 0 and one at a distance
\* above 2
C11_Reached ==
    /\ SourcesReturned
    /\ \E i \in 1..Len(q_results) : q_results[i].distance < 0
    /\ \E k \in 1..Len(q_log) :
        /\ q_log[k].response.status = 200
        /\ \E i \in 1..Len(q_log[k].response.sources) :
            q_log[k].response.sources[i].relevance_score = 0

\* the body of a request is bad input: not readable, empty, not an object, or
\* an object whose question is missing, not a string, empty or whitespace only
BadInput(body) ==
    \/ body.kind \in {"unreadable", "falsy", "array", "object_other"}
    \/ body.kind = "object" /\ body.question.type # "str"
    \/ body.kind = "object" /\ BlankQuestion(body.question)

\* one of the calls of a request failed
CallFailed(made) == \E i \in 1..Len(made) : ~made[i].ok

\* the errors of the three outcomes
BadInputErrors == {"json_body_required", "question_empty"}

\* C12: every request to the ask endpoint that is not answered ends in
\* exactly one of three outcomes: 503 "not ready" when the engine is absent,
\* before any call; 400 "bad input" when the body is missing or the question
\* is empty, whitespace only or malformed (not a string); 500 with a
\* processing-error message when the embedding, store or generation call
\* fails.  Bad input is never reported as a processing failure and a failure
\* of a service is never reported as bad input.
C12_ThreeOutcomes ==
    \A k \in 1..Len(q_log) :
        q_log[k].entry = "ask" =>
            LET r == q_log[k].response
            IN  /\ ~r.success =>
                    \/ r.status = 503 /\ r.error = "not_initialized"
                    \/ r.status = 400 /\ r.error \in BadInputErrors
                    \/ r.status = 500 /\ r.error = "processing_error"
                /\ r.status = 503 => q_log[k].calls = <<>>
                /\ BadInput(q_log[k].body) =>
                    (r.status = 400 /\ q_log[k].calls = <<>>)
                /\ CallFailed(q_log[k].calls) =>
                    (r.status = 500 /\ r.error = "processing_error")
                /\ r.status = 400 => ~CallFailed(q_log[k].calls)
                /\ r.error = "processing_error" => ~BadInput(q_log[k].body)

\* what ask does give: a failure of a service is answered 500 with the
\* processing-error message and nothing else is; a body that is missing and a
\* question that is missing, empty or whitespace only are answered 400 before
\* any call; a 400 is only ever given to bad input
C12_FailuresKept ==
    \A k \in 1..Len(q_log) :
        q_log[k].entry = "ask" =>
            LET r == q_log[k].response
                body == q_log[k].body
            IN  /\ CallFailed(q_log[k].calls) <=>
                    (r.status = 500 /\ r.error = "processing_error")
                /\ (\/ body.kind \in {"falsy", "object_other"}
                    \/ body.kind = "object" /\ BlankQuestion(body.question)) =>
                        (r.status = 400 /\ q_log[k].calls = <<>>)
                /\ r.status = 400 => (BadInput(body) /\ q_log[k].calls = <<>>)
                /\ r.success <=>
                    (/\ ~BadInput(body)
                     /\ Len(q_log[k].calls) = 3
                     /\ ~CallFailed(q_log[k].calls))

\* a request answered 400 for an empty body and one answered 500 for a
\* failure of the store
C12_Reached ==
    /\ Len(q_log) = 2
    /\ q_log[1].entry = "ask" /\ q_log[1].body.kind = "falsy"
    /\ q_log[1].response.status = 400
    /\ q_log[2].entry = "ask" /\ q_log[2].response.error = "processing_error"
    /\ Len(q_log[2].calls) = 2

(***************************************************************************)
(* Properties of generate_embeddings (specification SpecIngest).           *)
(***************************************************************************)
\* ceil(n / b) for b >= 1
CeilDiv(n, b) == (n + b - 1) \div b

\* the calls generate_embeddings makes, in the order it makes them
EmbedCalls == CallsOfKind({"embed", "sleep"})

\* generate_embeddings has returned to main
EmbedReturned ==
    /\ ~EmbedFailed
    /\ \/ main_pc \in {"create_vector_database", "done"}
       \/ CallsOfKind(StoreKinds) # <<>>

\* C13: for n texts and batch size b, generate_embeddings makes exactly
\* ceil(n / b) embedding calls, one after another in input order, the j-th
\* with texts[(j-1)*b .. min(j*b, n)) and the document purpose; it pauses
\* after each call that another call follows and never after the last; and
\* it returns n vectors, the i-th being the one the service gave for
\* texts[i].
C13_BatchesInOrder ==
    LET n == Len(texts)
        b == embed_batch_size
        made == EmbedCalls
    IN  /\ \A k \in 1..Len(made) :
            IF k % 2 = 1
            THEN /\ made[k].kind = "embed"
                 /\ made[k].input_type = "document"
                 /\ made[k].texts = Slice(texts, ((k - 1) \div 2) * b,
                                          ((k - 1) \div 2 + 1) * b)
                 /\ made[k].texts # <<>>
                 /\ Len(made[k].texts) <= b
                 /\ k < Len(made) => made[k].ok
            ELSE /\ made[k].kind = "sleep"
                 /\ (k \div 2) * b < n
        /\ main_pc = "embed_sleep" =>
                (Len(made) % 2 = 1 /\ ((Len(made) + 1) \div 2) * b < n)
        /\ EmbedReturned =>
            /\ Len(SelectSeq(made, LAMBDA c : c.kind = "embed")) = CeilDiv(n, b)
            /\ Len(SelectSeq(made, LAMBDA c : c.kind = "sleep"))
                    = IF n = 0 THEN 0 ELSE CeilDiv(n, b) - 1
            /\ made # <<>> => made[Len(made)].kind = "embed"
            /\ Len(embeddings) = n
            /\ \A i \in 1..n : embeddings[i] = EmbedVector(texts[i], "document")

\* five texts in batches of two: three calls, two pauses, five vectors
C13_Witness ==
    /\ EmbedReturned
    /\ Len(texts) = 5
    /\ embed_batch_size = 2
    /\ Len(EmbedCalls) = 5
    /\ EmbedCalls[5].kind = "embed"
    /\ EmbedCalls[5].texts = <<texts[5]>>
    /\ Len(embeddings) = 5

====
